---- MODULE Spec2Model ----
(***************************************************************************)
(* A model of sergiu128/mirrored-buffer: a ring buffer whose backing       *)
(* shared-memory object is mapped twice, back to back, so that every       *)
(* window of the ring is one contiguous range of the 2 x capacity slice.   *)
(*                                                                         *)
(* usize is scaled down to UsizeBits bits and the page size to a few       *)
(* bytes; a byte of the model is a byte of the program.                    *)
(***************************************************************************)
EXTENDS Integers, Sequences, FiniteSets, TLC

\* ------------------------------------------------------------------ bounds
\* Width of usize in the model (usize::BITS scaled down).
UsizeBits == 4
\* Largest requested buffer size below the top of the usize range.
MaxSize == 5
\* Largest size argument given to claim, commit and consume.
MaxArg == 5
\* Largest byte value the caller writes or fills with.
MaxByte == 1
\* Largest page size the page rounding is run with.
MaxPage == 8

RECURSIVE Pow2(_)
Pow2(k) == IF k = 0 THEN 1 ELSE 2 * Pow2(k - 1)

UsizeMod == Pow2(UsizeBits)
UsizeMax == UsizeMod - 1

\* Requested sizes: the small ones and the two at the top of the usize range.
Sizes == (0..MaxSize) \cup {UsizeMax - 1, UsizeMax}
Args == 0..MaxArg
Bytes == 0..MaxByte
\* What sysconf(_SC_PAGESIZE) reports: a failure, a power of two, and a
\* page size that is no power of two.
PageSizes == {-1, 2, 3}
\* The platform call that fails during construction, if any.
Failures == {"none", "shm_open", "ftruncate", "mmap", "remap1", "remap2"}

None == <<>>
Some(x) == <<x>>
NoSuffix == "-"
Unmapped == -1

Min(a, b) == IF a < b THEN a ELSE b

\* Bitwise and of two naturals, bit by bit.
RECURSIVE BitAnd(_, _)
BitAnd(a, b) ==
    IF a = 0 \/ b = 0 THEN 0
    ELSE (a % 2) * (b % 2) + 2 * BitAnd(a \div 2, b \div 2)

VARIABLES
    page_size,   \* what the platform reports as its page size
    shm,         \* names of the shared-memory objects that exist
    status,      \* "none" | "live" | "panicked"
    name,        \* MirroredBuffer.name
    head,        \* MirroredBuffer.head
    tail,        \* MirroredBuffer.tail
    size_total,  \* MirroredBuffer.size_total
    size_mask,   \* MirroredBuffer.size_mask
    size_used,   \* MirroredBuffer.size_used
    vma,         \* slice index -> offset in the shared-memory object
    mem,         \* the bytes of the shared-memory object
    ret,         \* the last call: [op, arg, val]
    claimed,     \* the window the last claim returned: [start, len]
    written,     \* the bytes the caller wrote into the claimed window
    fifo,        \* the bytes committed and not yet consumed, in order
    thr          \* a producer and a consumer thread inside commit and consume

buffer == <<name, head, tail, size_total, size_mask, size_used, vma, mem>>
caller == <<claimed, written, fifo>>
vars == <<page_size, shm, status, name, head, tail, size_total, size_mask,
          size_used, vma, mem, ret, claimed, written, fifo, thr>>

NoClaim == [start |-> 0, len |-> 0]
\* No call in progress on either thread: each thread's position inside
\* its call (pc), the size it computed (n), the used count it loaded (r),
\* the range the consumer holds from committed(), and whether two calls
\* have overlapped.
NoThreads ==
    [ppc |-> "idle", pn |-> 0, pr |-> 0,
     cpc |-> "idle", cn |-> 0, cr |-> 0,
     view |-> <<>>, raced |-> FALSE]
Empty == [i \in {} |-> 0]

\* ---------------------------------------------------------------- platform
\* util.rs: get_page_size. Err when sysconf reports no positive page size.
get_page_size == IF page_size <= 0 THEN None ELSE Some(page_size)

\* Mutant: the size is rounded down to a page multiple, a page at least.
round_down_to_page_size(n, checks) ==
    IF get_page_size = None THEN [panic |-> TRUE, val |-> 0]
    ELSE LET p == get_page_size[1]
         IN  [panic |-> FALSE, val |-> IF n < p THEN p ELSE (n \div p) * p]

\* Mutant: the size is rounded up to a power-of-two number of pages.
round_up_to_pow2_pages(n, checks) ==
    IF get_page_size = None THEN [panic |-> TRUE, val |-> 0]
    ELSE LET p == get_page_size[1]
             k == CHOOSE k \in 0..UsizeBits :
                    /\ p * Pow2(k) >= n
                    /\ \A j \in 0..(k - 1) : p * Pow2(j) < n
             exact == p * Pow2(k)
         IN  IF exact > UsizeMax /\ checks THEN [panic |-> TRUE, val |-> 0]
             ELSE [panic |-> FALSE, val |-> exact % UsizeMod]

\* Mutant: an exact multiple is kept even when it is 0.
round_up_keeping_zero(n, checks) ==
    IF get_page_size = None THEN [panic |-> TRUE, val |-> 0]
    ELSE LET p == get_page_size[1]
             exact == (n \div p + 1) * p
         IN  IF n % p = 0 THEN [panic |-> FALSE, val |-> n]
             ELSE IF exact > UsizeMax /\ checks THEN [panic |-> TRUE, val |-> 0]
             ELSE [panic |-> FALSE, val |-> exact % UsizeMod]

\* util.rs: round_up_to_page_size. `checks` is the build's overflow-checks
\* setting: with it an overflowing multiplication panics, without it wraps.
round_up_to_page_size(n, checks) ==
    IF get_page_size = None THEN [panic |-> TRUE, val |-> 0]
    ELSE LET p == get_page_size[1]
             exact == (n \div p + 1) * p
         IN  IF n > 0 /\ n % p = 0 THEN [panic |-> FALSE, val |-> n]
             ELSE IF exact > UsizeMax /\ checks THEN [panic |-> TRUE, val |-> 0]
             ELSE [panic |-> FALSE, val |-> exact % UsizeMod]

\* lib.rs: the name of the backing object, from the process id and the suffix.
Name(suffix) ==
    IF suffix = NoSuffix THEN <<"/mirrored-buffer", "pid">>
    ELSE <<"/mirrored-buffer", "pid", suffix>>

\* mmap(NULL, len, PROT_NONE, MAP_PRIVATE | MAP_ANONYMOUS): a reservation
\* with no access.
MmapAnon(len) == [i \in 0..(len - 1) |-> Unmapped]

\* mmap(addr, len, RW, MAP_SHARED | MAP_FIXED, fd, 0): the range at addr
\* now shows the object from offset 0.
MmapFixed(vm, addr, len) ==
    [i \in DOMAIN vm |-> IF addr <= i /\ i < addr + len THEN i - addr ELSE vm[i]]

\* mmap with MAP_FIXED refuses an address that is no multiple of the page
\* size.
Aligned(addr) == addr % page_size = 0

\* Mutant: the second remap lands on the first half again.
SecondHalf_Same(addr, len) == addr

\* lib.rs: where the second remap lands.
SecondHalf(addr, len) == addr + len

\* lib.rs: the reservation with both halves remapped onto the object.
Mirror(len) ==
    MmapFixed(MmapFixed(MmapAnon((len * 2) % UsizeMod), 0, len), SecondHalf(0, len), len)

\* slice.fill(v) through the mapping.
Fill(m, vm, v) ==
    [o \in DOMAIN m |-> IF \E i \in DOMAIN vm : vm[i] = o THEN v ELSE m[o]]

\* ------------------------------------------------------------------ buffer
SliceLen == Cardinality(DOMAIN vma)
\* Reading slice[i]; Unmapped stands for the fault of an access outside
\* the mapped object.
Read(m, vm, i) ==
    IF i \in DOMAIN vm /\ vm[i] \in DOMAIN m THEN m[vm[i]] ELSE Unmapped

Slice(i) == Read(mem, vma, i)

\* lib.rs: free, used, size.
Free == (size_total - size_used) % UsizeMod
Used == size_used
Size == size_total

Init ==
    /\ page_size \in PageSizes
    /\ shm = {}
    /\ status = "none"
    /\ name = <<>>
    /\ head = 0
    /\ tail = 0
    /\ size_total = 0
    /\ size_mask = 0
    /\ size_used = 0
    /\ vma = Empty
    /\ mem = Empty
    /\ ret = [op |-> "start", arg |-> 0, val |-> None]
    /\ claimed = NoClaim
    /\ written = <<>>
    /\ fifo = <<>>
    /\ thr = NoThreads

Fails(size, val) ==
    /\ ret' = [op |-> "new", arg |-> size, val |-> val]
    /\ UNCHANGED <<status, buffer, caller>>

\* new returns Err after the reservation was mapped: nothing unmaps it,
\* so the address space keeps the mapping vm onto the resized object.
FailsMapped(size, val, total, vm) ==
    /\ ret' = [op |-> "new", arg |-> size, val |-> val]
    /\ vma' = vm
    /\ mem' = [o \in 0..(total - 1) |-> 0]
    /\ UNCHANGED <<status, name, head, tail, size_total, size_mask,
                   size_used, caller>>

\* A panic inside call `op`; the op recorded is the call's name with "!".
Panics(op, arg) ==
    /\ status' = "panicked"
    /\ ret' = [op |-> op, arg |-> arg, val |-> None]
    /\ UNCHANGED <<buffer, caller>>

\* Mutant: a buffer that starts with one byte counted as used.
Fresh_Used == [head |-> 0, tail |-> 0, size_used |-> 1]

\* lib.rs: the cursors and the used count new gives the struct it returns.
Fresh == [head |-> 0, tail |-> 0, size_used |-> 0]

\* Mutant: shm_open without O_EXCL opens the object that exists.
ShmOpenFails_Attach(nm, fail) == fail = "shm_open"

\* lib.rs: shm_open(O_CREAT | O_EXCL) fails when the name exists.
ShmOpenFails(nm, fail) == nm \in shm \/ fail = "shm_open"

\* lib.rs: the body of MirroredBuffer::new.
NewCall(size, suffix, initial_value, fail, checks) ==
    /\ UNCHANGED <<page_size, thr>>
    /\ IF size = 0
       THEN Fails(size, <<"InvalidSize", size>>) /\ UNCHANGED shm
       ELSE IF ShmOpenFails(Name(suffix), fail)
       THEN Fails(size, <<"IO">>) /\ UNCHANGED shm
       ELSE
         /\ shm' = shm \cup {Name(suffix)}
         /\ LET r == round_up_to_page_size(size, checks)
                total == r.val
                mask == (total - 1) % UsizeMod
            IN  IF r.panic THEN Panics("new!", size)
                ELSE IF BitAnd(total, mask) # 0
                THEN Fails(size, <<"InvalidSize", total>>)
                ELSE IF fail = "ftruncate" \/ total >= UsizeMod \div 2
                THEN Fails(size, <<"IO">>)
                ELSE IF fail = "mmap" \/ (total * 2) % UsizeMod = 0
                THEN Fails(size, <<"IO">>)
                ELSE IF fail = "remap1"
                THEN FailsMapped(size, <<"IO">>, total,
                                 MmapAnon((total * 2) % UsizeMod))
                ELSE IF fail = "remap2" \/ ~Aligned(SecondHalf(0, total))
                THEN FailsMapped(size, <<"IO">>, total,
                                 MmapFixed(MmapAnon((total * 2) % UsizeMod),
                                           0, total))
                ELSE
                  /\ status' = "live"
                  /\ name' = Name(suffix)
                  /\ head' = Fresh.head
                  /\ tail' = Fresh.tail
                  /\ size_total' = total
                  /\ size_mask' = mask
                  /\ size_used' = Fresh.size_used
                  /\ vma' = Mirror(total)
                  /\ mem' = LET zero == [o \in 0..(total - 1) |-> 0]
                            IN  IF initial_value = None THEN zero
                                ELSE Fill(zero, Mirror(total), initial_value[1])
                  /\ ret' = [op |-> "new", arg |-> size, val |-> <<"Ok">>]
                  /\ UNCHANGED caller

\* lib.rs: MirroredBuffer::new, called while the process holds no buffer.
New(size, suffix, initial_value, fail, checks) ==
    /\ status = "none"
    /\ NewCall(size, suffix, initial_value, fail, checks)

\* lib.rs: MirroredBuffer::new, called with the suffix of the buffer that
\* is alive.
NewAgain(size, initial_value, fail, checks) ==
    /\ status = "live"
    /\ name = Name(NoSuffix)
    /\ NewCall(size, NoSuffix, initial_value, fail, checks)

\* Mutant: a cursor advanced without the wraparound mask.
Advance_NoMask(cursor, n) == (cursor + n) % UsizeMod

\* lib.rs: a cursor moved on by n, wrapped with the mask.
Advance(cursor, n) == BitAnd((cursor + n) % UsizeMod, size_mask)

\* Mutant: commit keeps one byte of the free space back.
CommitSize_OneShort(size) == IF Free = 0 THEN 0 ELSE Min(size, Free - 1)

\* Mutant: commit takes the requested size without saturating at free().
CommitSize_NoSaturate(size) == size

\* lib.rs: the number of bytes commit(size) publishes.
CommitSize(size) == Min(size, Free)

\* Mutant: consume takes the requested size without saturating at used().
ConsumeSize_NoSaturate(size) == size

\* lib.rs: the number of bytes consume(size) releases.
ConsumeSize(size) == Min(size, Used)

\* Mutant: claim offers its window at head.
ClaimWindow_AtHead(size) ==
    LET n == Min(size, Free)
    IN  IF n = 0 THEN None ELSE Some([start |-> head, len |-> n])

\* Mutant: claim offers the requested size without saturating at free().
ClaimWindow_NoMin(size) ==
    IF size = 0 THEN None ELSE Some([start |-> tail, len |-> size])

\* lib.rs: the window claim offers, Some([start, len]) or None.
ClaimWindow(size) ==
    LET n == Min(size, Free)
    IN  IF n = 0 THEN None ELSE Some([start |-> tail, len |-> n])

\* Mutant: claim moves tail past the window it offers.
Claim_Advances(size) ==
    /\ status = "live"
    /\ LET w == ClaimWindow(size)
       IN  /\ ret' = [op |-> "claim", arg |-> size, val |-> w]
           /\ claimed' = IF w = None THEN NoClaim ELSE w[1]
           /\ tail' = IF w = None THEN tail ELSE Advance(tail, w[1].len)
           /\ written' = <<>>
           /\ UNCHANGED <<page_size, thr, shm, status, name, head, size_total,
                          size_mask, size_used, vma, mem, fifo>>

\* lib.rs: MirroredBuffer::claim. Indexing the slice past its end panics.
Claim(size) ==
    /\ status = "live"
    /\ LET w == ClaimWindow(size)
       IN  IF w # None /\ w[1].start + w[1].len > SliceLen
           THEN Panics("claim!", size) /\ UNCHANGED <<page_size, thr, shm>>
           ELSE
             /\ ret' = [op |-> "claim", arg |-> size, val |-> w]
             /\ claimed' = IF w = None THEN NoClaim ELSE w[1]
             /\ written' = <<>>
             /\ UNCHANGED <<page_size, thr, shm, status, buffer, fifo>>

\* The caller writes the next byte of the window the last claim returned.
\* A store to a page with no access rights faults. (The borrow of the
\* window ends at the caller's next call; the model lets the write happen
\* until the next claim or commit, which admits every order the borrow
\* checker admits.)
Write(v) ==
    /\ status = "live"
    /\ Len(written) < claimed.len
    /\ LET i == claimed.start + Len(written)
       IN  IF vma[i] = Unmapped
           THEN Panics("write!", v) /\ UNCHANGED <<page_size, thr, shm>>
           ELSE
             /\ mem' = [mem EXCEPT ![vma[i]] = v]
             /\ written' = Append(written, v)
             /\ UNCHANGED <<page_size, thr, shm, status, name, head, tail,
                            size_total, size_mask, size_used, vma, ret,
                            claimed, fifo>>

\* The bytes a commit of n publishes: what the caller wrote into the
\* window, then whatever the storage holds behind it.
Published(n) ==
    [j \in 1..n |-> IF j <= Len(written) THEN written[j]
                    ELSE Slice(tail + j - 1)]

\* lib.rs: MirroredBuffer::commit.
Commit(size) ==
    /\ status = "live"
    /\ LET n == CommitSize(size)
       IN  /\ size_used' = (size_used + n) % UsizeMod
           /\ tail' = Advance(tail, n)
           /\ ret' = [op |-> "commit", arg |-> size, val |-> n]
           /\ fifo' = fifo \o Published(n)
    /\ claimed' = NoClaim
    /\ written' = <<>>
    /\ UNCHANGED <<page_size, thr, shm, status, name, head, size_total, size_mask,
                   vma, mem>>

\* lib.rs: MirroredBuffer::consume.
Consume(size) ==
    /\ status = "live"
    /\ LET n == ConsumeSize(size)
       IN  /\ size_used' = (size_used - n) % UsizeMod
           /\ head' = Advance(head, n)
           /\ ret' = [op |-> "consume", arg |-> size, val |-> n]
           /\ fifo' = SubSeq(fifo, n + 1, Len(fifo))
    /\ UNCHANGED <<page_size, thr, shm, status, name, tail, size_total, size_mask,
                   vma, mem, claimed, written>>

\* Mutant: head = tail is taken for the unwrapped case, full or not.
CommittedRange_Le ==
    IF Used = 0 THEN None
    ELSE IF head <= tail THEN Some([start |-> head, end |-> tail])
    ELSE Some([start |-> head, end |-> (tail + Size) % UsizeMod])

\* Mutant: a wrapped range stops at the end of the first half.
CommittedRange_ToEnd ==
    IF Used = 0 THEN None
    ELSE IF head < tail THEN Some([start |-> head, end |-> tail])
    ELSE Some([start |-> head, end |-> Size])

\* lib.rs: the range committed returns, Some([start, end]) or None.
CommittedRange ==
    IF Used = 0 THEN None
    ELSE IF head < tail THEN Some([start |-> head, end |-> tail])
    ELSE Some([start |-> head, end |-> (tail + Size) % UsizeMod])

\* lib.rs: MirroredBuffer::committed. A range that ends before it starts
\* or past the end of the slice panics.
Committed ==
    /\ status = "live"
    /\ LET c == CommittedRange
       IN  IF c # None /\ (c[1].start > c[1].end \/ c[1].end > SliceLen)
           THEN Panics("committed!", 0) /\ UNCHANGED <<page_size, thr, shm>>
           ELSE
             /\ ret' = [op |-> "committed", arg |-> 0, val |-> c]
             /\ UNCHANGED <<page_size, thr, shm, status, buffer, caller>>

\* lib.rs: Drop for MirroredBuffer. shm_unlink removes the name; its
\* failure panics. Nothing unmaps the slice or closes the descriptor: the
\* mapping, and the object's bytes behind it, stay in the address space
\* (vma and mem show the last region mapped).
Drop(fail) ==
    /\ status = "live"
    /\ IF fail \/ name \notin shm
       THEN Panics("drop!", 0) /\ UNCHANGED <<page_size, thr, shm>>
       ELSE
         /\ shm' = shm \ {name}
         /\ status' = "none"
         /\ name' = <<>>
         /\ head' = 0
         /\ tail' = 0
         /\ size_total' = 0
         /\ size_mask' = 0
         /\ size_used' = 0
         /\ UNCHANGED <<vma, mem>>
         /\ ret' = [op |-> "drop", arg |-> 0, val |-> None]
         /\ claimed' = NoClaim
         /\ written' = <<>>
         /\ fifo' = <<>>
         /\ UNCHANGED <<page_size, thr>>

Next ==
    \/ \E size \in Sizes, iv \in {None} \cup {Some(b) : b \in Bytes},
          fail \in Failures, checks \in BOOLEAN :
          New(size, NoSuffix, iv, fail, checks)
    \/ \E size \in Args : Claim(size)
    \/ \E v \in Bytes : Write(v)
    \/ \E size \in Args : Commit(size)
    \/ \E size \in Args : Consume(size)
    \/ Committed
    \/ \E fail \in BOOLEAN : Drop(fail)

Spec == Init /\ [][Next]_vars

\* ------------------------------------------------------- a second create
InitialValues == {None} \cup {Some(b) : b \in Bytes}

\* The second create is run with the sizes 0, 1 and usize::MAX, with and
\* without a failing shm_open; nothing behind shm_open is reached while
\* the name exists.
ExclSizes == {0, 1, UsizeMax}

NextExcl ==
    \/ Next
    \/ \E size \in ExclSizes, fail \in {"none", "shm_open"} :
          NewAgain(size, None, fail, FALSE)

SpecExcl == Init /\ [][NextExcl]_vars

\* ------------------------------------------------------------ page rounding
\* The page sizes and the sizes the rounding is run with: every usize.
RoundPages == 1..MaxPage
RoundSizes == 0..UsizeMax

InitRound ==
    /\ page_size \in RoundPages
    /\ shm = {}
    /\ status = "none"
    /\ name = <<>>
    /\ head = 0
    /\ tail = 0
    /\ size_total = 0
    /\ size_mask = 0
    /\ size_used = 0
    /\ vma = Empty
    /\ mem = Empty
    /\ ret = [op |-> "start", arg |-> 0, val |-> None]
    /\ claimed = NoClaim
    /\ written = <<>>
    /\ fifo = <<>>
    /\ thr = NoThreads

\* util.rs: a call of round_up_to_page_size(n), as new and the unit test
\* make it.
Round(n, checks) ==
    /\ status = "none"
    /\ LET r == round_up_to_page_size(n, checks)
       IN  IF r.panic
           THEN Panics("round!", n) /\ UNCHANGED <<page_size, thr, shm>>
           ELSE /\ ret' = [op |-> "round", arg |-> n, val |-> r.val]
                /\ UNCHANGED <<page_size, thr, shm, status, buffer, caller>>

NextRound == \E n \in RoundSizes, checks \in BOOLEAN : Round(n, checks)

SpecRound == InitRound /\ [][NextRound]_vars

\* --------------------------------------- one producer and one consumer
\* A producer thread and a consumer thread share one buffer with no lock.
\* The buffer is the one new(1) returns on a platform whose page size is a
\* power of two.
InitSpsc ==
    /\ page_size \in {p \in PageSizes : p > 0 /\ BitAnd(p, p - 1) = 0}
    /\ shm = {Name(NoSuffix)}
    /\ status = "live"
    /\ name = Name(NoSuffix)
    /\ head = Fresh.head
    /\ tail = Fresh.tail
    /\ size_total = page_size
    /\ size_mask = page_size - 1
    /\ size_used = Fresh.size_used
    /\ vma = Mirror(page_size)
    /\ mem = [o \in 0..(page_size - 1) |-> 0]
    /\ ret = [op |-> "new", arg |-> 1, val |-> <<"Ok">>]
    /\ claimed = NoClaim
    /\ written = <<>>
    /\ fifo = <<>>
    /\ thr = NoThreads

\* The other thread is inside commit, or inside consume.
InCommit == thr.ppc \in {"load", "store", "tail"}
InConsume == thr.cpc \in {"load", "store", "head"}

\* s without its first n elements.
DropFirst(s, n) == IF n >= Len(s) THEN <<>> ELSE SubSeq(s, n + 1, Len(s))

\* The producer's claim and its writes into the window, between its calls
\* of commit.
PClaim(size) == thr.ppc = "idle" /\ Claim(size)
PWrite(v) == thr.ppc = "idle" /\ Write(v)

\* lib.rs: commit, statement by statement. size = min(size, self.free()).
\* (The bytes counted as committed and not consumed are followed up to
\* one capacity past the capacity.)
CommitMin(size) ==
    /\ status = "live" /\ thr.ppc = "idle"
    /\ Len(fifo) <= size_total
    /\ thr' = [thr EXCEPT !.ppc = "load", !.pn = CommitSize(size),
                          !.raced = @ \/ InConsume]
    /\ UNCHANGED <<page_size, shm, status, buffer, ret, caller>>

\* self.size_used += size: the load of size_used.
CommitLoad ==
    /\ thr.ppc = "load"
    /\ thr' = [thr EXCEPT !.ppc = "store", !.pr = size_used,
                          !.raced = @ \/ InConsume]
    /\ UNCHANGED <<page_size, shm, status, buffer, ret, caller>>

\* self.size_used += size: the store of the sum.
CommitStore ==
    /\ thr.ppc = "store"
    /\ size_used' = (thr.pr + thr.pn) % UsizeMod
    /\ thr' = [thr EXCEPT !.ppc = "tail", !.raced = @ \/ InConsume]
    /\ UNCHANGED <<page_size, shm, status, name, head, tail, size_total,
                   size_mask, vma, mem, ret, caller>>

\* self.tail = (self.tail + size) & self.size_mask, and the return.
CommitTail ==
    /\ thr.ppc = "tail"
    /\ tail' = Advance(tail, thr.pn)
    /\ fifo' = fifo \o Published(thr.pn)
    /\ claimed' = NoClaim
    /\ written' = <<>>
    /\ thr' = [thr EXCEPT !.ppc = "idle", !.pn = 0, !.pr = 0,
                          !.raced = @ \/ InConsume]
    /\ UNCHANGED <<page_size, shm, status, name, head, size_total,
                   size_mask, size_used, vma, mem, ret>>

\* lib.rs: committed, called by the consumer, which keeps the range.
View ==
    /\ status = "live" /\ thr.cpc = "idle"
    /\ thr' = [thr EXCEPT !.view = CommittedRange, !.raced = @ \/ InCommit]
    /\ UNCHANGED <<page_size, shm, status, buffer, ret, caller>>

\* lib.rs: consume, statement by statement. size = min(size, self.used());
\* the range from committed() is given up with the call.
ConsumeMin(size) ==
    /\ status = "live" /\ thr.cpc = "idle"
    /\ thr' = [thr EXCEPT !.cpc = "load", !.cn = ConsumeSize(size),
                          !.view = None, !.raced = @ \/ InCommit]
    /\ UNCHANGED <<page_size, shm, status, buffer, ret, caller>>

\* self.size_used -= size: the load of size_used.
ConsumeLoad ==
    /\ thr.cpc = "load"
    /\ thr' = [thr EXCEPT !.cpc = "store", !.cr = size_used,
                          !.raced = @ \/ InCommit]
    /\ UNCHANGED <<page_size, shm, status, buffer, ret, caller>>

\* self.size_used -= size: the store of the difference.
ConsumeStore ==
    /\ thr.cpc = "store"
    /\ size_used' = (thr.cr - thr.cn) % UsizeMod
    /\ thr' = [thr EXCEPT !.cpc = "head", !.raced = @ \/ InCommit]
    /\ UNCHANGED <<page_size, shm, status, name, head, tail, size_total,
                   size_mask, vma, mem, ret, caller>>

\* self.head = (self.head + size) & self.size_mask, and the return.
ConsumeHead ==
    /\ thr.cpc = "head"
    /\ head' = Advance(head, thr.cn)
    /\ fifo' = DropFirst(fifo, thr.cn)
    /\ thr' = [thr EXCEPT !.cpc = "idle", !.cn = 0, !.cr = 0,
                          !.raced = @ \/ InCommit]
    /\ UNCHANGED <<page_size, shm, status, name, tail, size_total,
                   size_mask, size_used, vma, mem, ret, claimed, written>>

NextSpsc ==
    \/ \E size \in 1..size_total : PClaim(size)
    \/ \E v \in Bytes : PWrite(v)
    \/ \E size \in 1..size_total : CommitMin(size)
    \/ CommitLoad
    \/ CommitStore
    \/ CommitTail
    \/ View
    \/ \E size \in 1..size_total : ConsumeMin(size)
    \/ ConsumeLoad
    \/ ConsumeStore
    \/ ConsumeHead

SpecSpsc == InitSpsc /\ [][NextSpsc]_vars

\* ------------------------------------------------------------------ claims
Live == status = "live"

\* The bytes committed() shows, read through the slice.
CommittedBytes ==
    IF CommittedRange = None THEN <<>>
    ELSE LET c == CommittedRange[1]
         IN  [j \in 1..(c.end - c.start) |-> Slice(c.start + j - 1)]

\* The step is the call claim(size), commit(size), consume(size), or the
\* caller's write of v.
IsWrite(v) == Len(written') = Len(written) + 1 /\ Write(v)
IsClaim(size) == ret'.op = "claim" /\ ret'.arg = size /\ Claim(size)
IsCommit(size) == ret'.op = "commit" /\ ret'.arg = size /\ Commit(size)
IsConsume(size) == ret'.op = "consume" /\ ret'.arg = size /\ Consume(size)

\* C1: on a constructed buffer used() + free() = size() and
\* 0 <= used() <= size() in every state, no call changes size(), and
\* consume(used()) leaves used() = 0 and free() = size().
C1_Accounting ==
    /\ [](Live => Used + Free = Size /\ 0 <= Used /\ Used <= Size)
    /\ [][(Live /\ Live' => Size' = Size)
          /\ (IsConsume(Used) => Used' = 0 /\ Free' = Size')]_vars

\* A consume of everything emptied a full buffer whose cursors had moved.
C1_Witness ==
    /\ Live
    /\ ret.op = "consume" /\ ret.val = Size /\ ret.arg = Size
    /\ Used = 0 /\ Free = Size /\ head # 0

\* C2: head and tail are in [0, capacity) and used = (tail - head) mod
\* capacity, or head = tail and used = capacity; head = tail never comes
\* with 0 < used < capacity, nor head # tail with used 0 or capacity.
C2_Cursors ==
    Live =>
      /\ head \in 0..(size_total - 1)
      /\ tail \in 0..(size_total - 1)
      /\ \/ size_used = (tail - head) % size_total
         \/ head = tail /\ size_used = size_total
      /\ ~(head = tail /\ 0 < size_used /\ size_used < size_total)
      /\ ~(head # tail /\ size_used \in {0, size_total})

\* A full buffer whose tail wrapped round to a head that is not 0.
C2_Witness ==
    Live /\ head = tail /\ head # 0 /\ size_used = size_total /\ ret.op = "commit"

\* C3: committed() returns nothing exactly when used() = 0, and otherwise
\* one range of the slice that starts at head, is used() long and ends at
\* or before 2 x capacity; a full buffer gives a capacity-long range.
C3_Committed ==
    /\ Live =>
         /\ CommittedRange = None <=> Used = 0
         /\ CommittedRange # None =>
              LET c == CommittedRange[1]
              IN  /\ c.start = head
                  /\ c.end - c.start = Used
                  /\ c.end <= 2 * Size
                  /\ c.end <= SliceLen
                  /\ Used = Size => c.end - c.start = Size /\ c.end > c.start
    /\ ret.op = "committed" => Live /\ ret.val = CommittedRange

\* committed() on a full buffer with head = tail > 0 returned the
\* capacity-long range that runs into the mirror.
C3_Witness ==
    /\ Live /\ ret.op = "committed"
    /\ Used = Size /\ head = tail /\ head > 0
    /\ ret.val = Some([start |-> head, end |-> head + Size])

\* C4: the bytes committed() returns are exactly the bytes committed and
\* not yet consumed, in the order they were committed, whatever claims,
\* writes, commits and consumes came before and wherever the window lies.
C4_Fifo ==
    Live => CommittedBytes = fifo /\ Len(fifo) = Used

\* Bytes the caller wrote are shown across the physical end of the first
\* half, in order, after the cursors wrapped.
C4_Witness ==
    /\ Live /\ ret.op = "committed" /\ ret.val # None
    /\ head > tail /\ tail > 0 /\ Used >= 3
    /\ ret.val[1].end > Size
    /\ fifo[1] # fifo[2] /\ fifo[Len(fifo)] # fifo[Len(fifo) - 1]
    /\ CommittedBytes = fifo

\* C5: claim(size) returns nothing exactly when min(size, free()) = 0, and
\* otherwise one range that starts at tail, is min(size, free()) long and
\* ends at or before 2 x capacity, so it never indexes out of bounds.
C5_Claim ==
    /\ Live =>
         \A size \in Args :
           LET n == Min(size, size_total - size_used)
               w == ClaimWindow(size)
           IN  /\ w = None <=> n = 0
               /\ n > 0 => /\ w[1].start = tail
                           /\ w[1].len = n
                           /\ tail + n <= 2 * size_total
                           /\ tail + n <= SliceLen
    /\ ret.op = "claim" => Live /\ ret.val = ClaimWindow(ret.arg)
    /\ ret.op # "claim!"

\* claim returned a saturated window that runs from the first half into
\* the mirror.
C5_Witness ==
    /\ Live /\ ret.op = "claim" /\ ret.val # None
    /\ ret.val[1].len < ret.arg
    /\ ret.val[1].start < Size
    /\ ret.val[1].start + ret.val[1].len > Size

\* C6: claim(size) leaves head, tail, used and capacity unchanged, and so
\* do the caller's writes and committed(): across any of these steps the
\* window claim offers for each size stays the same, so a second claim of
\* the same size with no commit or consume in between returns the same
\* window.
C6_ClaimFrame ==
    [][/\ IsClaim(ret'.arg) =>
            /\ UNCHANGED <<head, tail, size_used, size_total>>
            /\ ret'.val = ClaimWindow(ret'.arg)
       /\ IsClaim(ret'.arg) \/ (\E v \in Bytes : IsWrite(v))
            \/ (ret'.op = "committed" /\ Committed)
            => \A size \in Args : ClaimWindow(size)' = ClaimWindow(size)]_vars

\* A window was claimed, written into and claimed again, with nothing
\* committed: used() counts none of it.
C6_Witness ==
    /\ Live /\ ret.op = "claim" /\ ret.val # None
    /\ written = <<>> /\ Used = 0 /\ fifo = <<>>
    /\ ret.val[1].len >= 2
    /\ Slice(tail) # Slice(tail + 1)

\* C7: commit(size) with free() = f returns n = min(size, f), adds n to
\* used, sets tail to (tail + n) mod capacity and leaves head and capacity
\* alone; with f < size it advances by f, and on a full buffer it returns
\* 0 and changes nothing.
C7_Commit ==
    [][\A size \in Args :
         IsCommit(size) =>
           LET f == size_total - size_used
               n == Min(size, f)
           IN  /\ ret'.val = n
               /\ size_used' = size_used + n
               /\ tail' = (tail + n) % size_total
               /\ head' = head
               /\ size_total' = size_total
               /\ f < size => ret'.val = f /\ size_used' = size_total
               /\ f = 0 => ret'.val = 0 /\ UNCHANGED buffer]_vars

\* A commit of more than was free filled the buffer, and tail wrapped.
C7_Witness ==
    /\ Live /\ ret.op = "commit"
    /\ 0 < ret.val /\ ret.val < ret.arg
    /\ Used = Size /\ tail < ret.val /\ tail > 0

\* C8: consume(size) with used() = u returns n = min(size, u), takes n
\* from used, sets head to (head + n) mod capacity and leaves tail,
\* capacity and the stored bytes alone; on an empty buffer it returns 0
\* and changes nothing.
C8_Consume ==
    [][\A size \in Args :
         IsConsume(size) =>
           LET u == size_used
               n == Min(size, u)
           IN  /\ ret'.val = n
               /\ size_used' = size_used - n
               /\ head' = (head + n) % size_total
               /\ tail' = tail
               /\ size_total' = size_total
               /\ mem' = mem /\ vma' = vma
               /\ u = 0 => ret'.val = 0 /\ UNCHANGED buffer]_vars

\* A consume of more than was used emptied the buffer, and head wrapped.
C8_Witness ==
    /\ Live /\ ret.op = "consume"
    /\ 0 < ret.val /\ ret.val < ret.arg
    /\ Used = 0 /\ head < ret.val /\ head > 0

\* C9: slice[i] and slice[i + capacity] are the same byte for every
\* i < capacity: a byte written at either index is read at both, and the
\* capacity-long window at any tail covers every byte of the object.
C9_Mirror ==
    /\ [](Live =>
           /\ SliceLen = 2 * size_total
           /\ \A i \in 0..(size_total - 1) :
                /\ vma[i] # Unmapped
                /\ vma[i] = vma[i + size_total]
                /\ Slice(i) = Slice(i + size_total)
           /\ \A t \in 0..(size_total - 1) :
                {vma[i] : i \in t..(t + size_total - 1)} = DOMAIN mem)
    /\ [][\A v \in Bytes :
            IsWrite(v) =>
              LET i == claimed.start + Len(written)
                  m == IF i < size_total THEN i + size_total ELSE i - size_total
              IN  Read(mem', vma', i) = v /\ Read(mem', vma', m) = v]_vars

\* A byte written through the second half is read in the first half, where
\* the neighbouring byte differs.
C9_Witness ==
    /\ Live
    /\ claimed.start + Len(written) > size_total + 1
    /\ Len(written) > 0
    /\ Slice(1) # Slice(0)
    /\ Slice(0) = written[Len(written)]
    /\ Slice(size_total) = written[Len(written)]

IsPow2(n) == \E k \in 0..UsizeBits : n = Pow2(k)

\* C10: a buffer that create(size) returns, size > 0, has a capacity that
\* is a power of two, a multiple of the page size and at least size, and
\* its mask is capacity - 1.
C10_Capacity ==
    /\ Live =>
         /\ IsPow2(size_total)
         /\ page_size > 0
         /\ size_total % page_size = 0
         /\ size_mask = size_total - 1
    /\ ret.op = "new" =>
         IF ret.val = <<"Ok">>
         THEN Live /\ ret.arg > 0 /\ size_total >= ret.arg
         ELSE ~Live

\* create(3) on a platform with 2-byte pages returned a 4-byte buffer.
C10_Witness ==
    /\ Live /\ ret.op = "new" /\ ret.val = <<"Ok">>
    /\ ret.arg = 3 /\ page_size = 2
    /\ size_total = 4 /\ size_mask = 3

\* m is the smallest positive multiple of p that is at least n.
IsRounded(m, n, p) ==
    m % p = 0 /\ m >= p /\ m >= n /\ (m - p < n \/ m = p)

\* The rounded size of n fits in a usize.
Representable(n) == \E m \in 0..UsizeMax : IsRounded(m, n, page_size)

\* C11 as stated: the rounding maps every n to the smallest positive
\* multiple of the page size p that is at least n.
C11_EveryN ==
    ret.op \in {"round", "round!"} =>
      ret.op = "round" /\ IsRounded(ret.val, ret.arg, page_size)

\* C11, amended: for every n whose rounded size fits in a usize the
\* rounding returns the smallest positive multiple of the page size p that
\* is at least n: a positive multiple is kept, 0 gives p, and
\* round(0) = round(1) = round(p - 1) = round(p) = p,
\* round(p + 1) = round(2p) = 2p. For any other n the rounding overflows:
\* it panics, or wraps to a smaller value.
C11_Rounding ==
    /\ \A n \in RoundSizes, checks \in BOOLEAN :
         LET r == round_up_to_page_size(n, checks)
         IN  IF Representable(n)
             THEN /\ ~r.panic
                  /\ IsRounded(r.val, n, page_size)
                  /\ n > 0 /\ n % page_size = 0 => r.val = n
                  /\ n \in {0, 1, page_size - 1, page_size} => r.val = page_size
                  /\ n \in {page_size + 1, 2 * page_size} => r.val = 2 * page_size
             ELSE r.panic \/ r.val < n
    /\ ret.op = "round" /\ Representable(ret.arg) =>
         IsRounded(ret.val, ret.arg, page_size)
    /\ ret.op = "round!" => ~Representable(ret.arg)

\* With 3-byte pages a size of 4 was rounded to 6.
C11_Witness ==
    ret.op = "round" /\ page_size = 3 /\ ret.arg = 4 /\ ret.val = 6

\* The step is the call new(size, None, initial_value) that returns, with
\* the platform failure `fail` and the build setting `checks`.
IsNew(size, initial_value, fail, checks) ==
    /\ ret'.op = "new" /\ ret'.arg = size
    /\ New(size, NoSuffix, initial_value, fail, checks)

\* The page-rounded size of n as the usize arithmetic yields it.
Rounded(n) ==
    (CHOOSE m \in 1..(UsizeMax + page_size) : IsRounded(m, n, page_size))
      % UsizeMod

\* C12 as stated: create fails with invalid-size only when the requested
\* size is 0 or the page size is no power of two.
C12_OnlyBadPage ==
    ret.op = "new" /\ ret.val[1] = "InvalidSize" =>
      ret.arg = 0 \/ ~IsPow2(page_size)

\* C12, amended: a create that returns fails with invalid-size exactly
\* when the requested size is 0, or the backing object was opened and the
\* page-rounded size is neither 0 nor a power of two; the error carries the
\* rejected size. A power-of-two page size does not exclude it.
C12_InvalidSize ==
    /\ [][status = "none" /\ ret'.op = "new" =>
            LET size == ret'.arg
                opened == Name(NoSuffix) \notin shm /\ Name(NoSuffix) \in shm'
            IN  /\ ret'.val[1] = "InvalidSize" <=>
                     \/ size = 0
                     \/ /\ opened
                        /\ page_size > 0
                        /\ Rounded(size) # 0
                        /\ ~IsPow2(Rounded(size))
                /\ ret'.val[1] = "InvalidSize" =>
                     ret'.val[2] = IF size = 0 THEN 0 ELSE Rounded(size)]_vars
    /\ [](ret.op = "new" /\ ret.val[1] = "InvalidSize" => ~Live)

\* With 2-byte pages create(5) was rejected for its rounded size 6.
C12_Witness ==
    /\ ret.op = "new" /\ page_size = 2 /\ IsPow2(page_size)
    /\ ret.arg = 5 /\ ret.val = <<"InvalidSize", 6>>

\* C13: a buffer create returned starts with head = 0, tail = 0,
\* used() = 0 and free() = size(); on it claim offers its window at index
\* 0, as long as min(size, capacity), and committed() returns nothing.
C13_Fresh ==
    ret.op = "new" /\ ret.val = <<"Ok">> =>
      /\ Live
      /\ head = 0 /\ tail = 0
      /\ Used = 0 /\ Free = Size /\ Size > 0
      /\ CommittedRange = None
      /\ ClaimWindow(0) = None
      /\ \A size \in Args \ {0} :
           ClaimWindow(size) = Some([start |-> 0, len |-> Min(size, Size)])
      /\ claimed = NoClaim /\ fifo = <<>>

\* create(4) with an initial value returned a buffer filled with it and
\* empty.
C13_Witness ==
    /\ Live /\ ret.op = "new" /\ ret.val = <<"Ok">> /\ ret.arg = 4
    /\ Size = 4 /\ Used = 0 /\ Free = 4 /\ head = 0 /\ tail = 0
    /\ \A i \in 0..7 : Slice(i) = 1

\* C14 as stated: a create that fails leaves no backing object and no
\* mapping behind: the objects that exist and the mapped region are what
\* they were before the call, so the name is free for a later create.
C14_AllOrNothing ==
    [][status = "none" /\ ret'.op = "new" /\ ret'.val[1] # "Ok" =>
         shm' = shm /\ vma' = vma]_vars

\* C15 as stated: on a platform that reports no page size, create does
\* not abort, and once the backing object is open it returns the
\* no-page-size error and constructs no buffer.
C15_NoPageSize ==
    page_size <= 0 =>
      /\ status = "none"
      /\ ret.op # "new!"
      /\ ret.op = "new" /\ ret.arg > 0 /\ ret.val[1] # "IO" =>
           ret.val = <<"NoPageSize">>

C17_Released ==
    ret.op = "drop" =>
      /\ status = "none"
      /\ Name(NoSuffix) \notin shm
      /\ vma = Empty

\* The offsets of the object behind the n slice indices from i on.
Offsets(i, n) == {vma[j] : j \in i..(i + n - 1)}

\* C19: the window claim offers, and the window the caller holds, never
\* overlap the committed region: the positions tail .. tail + n - 1 and
\* head .. head + used - 1 are disjoint modulo the capacity and show
\* disjoint bytes of the object, so a write into a claimed window changes
\* no byte that committed() returns.
C19_Disjoint ==
    /\ [](Live =>
           /\ \A size \in Args :
                LET n == Min(size, Free)
                IN  /\ {(tail + j) % size_total : j \in 0..(n - 1)}
                         \cap {(head + j) % size_total : j \in 0..(Used - 1)}
                       = {}
                    /\ ClaimWindow(size) # None =>
                         /\ ClaimWindow(size)[1].len = n
                         /\ Offsets(ClaimWindow(size)[1].start, n)
                              \cap Offsets(head, Used) = {}
           /\ Offsets(claimed.start, claimed.len) \cap Offsets(head, Used) = {})
    /\ [][\A v \in Bytes :
            IsWrite(v) => CommittedBytes' = CommittedBytes /\ fifo' = fifo]_vars

\* A window that runs into the mirror was written full, next to committed
\* bytes that differ from what was written.
C19_Witness ==
    /\ Live /\ claimed.len > 1 /\ Len(written) = claimed.len
    /\ Used > 1 /\ Used + claimed.len = Size
    /\ claimed.start + claimed.len > Size
    /\ \A j \in 1..Len(written) : written[j] # fifo[1]
    /\ CommittedBytes = fifo

\* C20: with a window of length n claimed and no commit since, commit(k)
\* for k <= n returns k, whatever consumes came in between: a consume
\* never lowers free(), never moves tail and leaves the window claimed, so
\* the window stays at tail and within the free space.
C20_CommitAfterClaim ==
    /\ [](Live => /\ claimed.len <= Free
                  /\ claimed.len > 0 => claimed.start = tail)
    /\ [][/\ (IsCommit(ret'.arg) /\ claimed.len > 0 /\ ret'.arg <= claimed.len)
              => (ret'.val = ret'.arg /\ Used' = Used + ret'.arg)
          /\ IsConsume(ret'.arg)
              => (Free' >= Free /\ tail' = tail /\ claimed' = claimed)]_vars

\* A window is claimed and written, and a consume after the claim has
\* made more space free than the window takes.
C20_Witness ==
    /\ Live /\ ret.op = "consume" /\ ret.val > 0
    /\ claimed.len > 1 /\ claimed.start = tail
    /\ Len(written) = claimed.len
    /\ Free > claimed.len /\ Used > 0

\* The bytes behind the range the consumer holds from committed().
ViewBytes ==
    IF thr.view = None THEN <<>>
    ELSE LET c == thr.view[1]
         IN  [j \in 1..(c.end - c.start) |-> Slice(c.start + j - 1)]

\* With no call in progress used is what was committed less what was
\* consumed, the cursors fit it, and committed() shows those bytes in
\* order; the range the consumer holds shows the oldest of them.
SpscConsistent ==
    /\ thr.ppc = "idle" /\ thr.cpc = "idle" =>
         /\ size_used = Len(fifo)
         /\ head \in 0..(size_total - 1)
         /\ tail \in 0..(size_total - 1)
         /\ \/ size_used = (tail - head) % size_total
            \/ head = tail /\ size_used = size_total
         /\ CommittedBytes = fifo
    /\ thr.view # None =>
         /\ thr.view[1].start = head
         /\ Len(ViewBytes) <= Len(fifo)
         /\ ViewBytes = SubSeq(fifo, 1, Len(ViewBytes))

\* C18 as stated: with the steps of the producer's and the consumer's
\* calls interleaved in any order, the load and the store of the used
\* count inside commit and consume included, the buffer stays consistent.
C18_LockFree == SpscConsistent

\* C18, amended: as long as no commit or consume of one thread has
\* overlapped a commit, consume or committed of the other, the buffer
\* stays consistent, however the calls, the producer's writes into its
\* window and the consumer's reads of its range are interleaved.
C18_Serialised == ~thr.raced => SpscConsistent

\* With no two calls overlapped, the consumer holds the range of a
\* committed byte while the producer has written the window behind it,
\* after the cursors wrapped.
C18_Witness ==
    /\ ~thr.raced /\ thr.ppc = "idle" /\ thr.cpc = "idle"
    /\ thr.view # None /\ head > 0 /\ ViewBytes = fifo /\ fifo # <<>>
    /\ claimed.len > 0 /\ Len(written) = claimed.len
    /\ written[1] # fifo[1]
====
